---- MODULE Spec2Model ----
\* Token state tracker and market-cap monitor of bot.py: the single active
\* entry (current_holder["entry"]), the current-state file, the history file,
\* the asyncio lock results_lock, the background task market_cap_monitor and
\* the message handlers of main.  One step of a task is the code it runs
\* between two awaits (asyncio runs a task without preemption until it awaits).
EXTENDS Integers, Sequences, FiniteSets, TLC

\* ---------------------------------------------------------------- bounds
\* largest number of candidates one message carries
MaxTokens == 2
\* largest number of candidates the messages of one run carry in total
MaxCandidates == 3

\* ---------------------------------------------------------------- values
\* Python None for the numeric fields (market caps, timestamps); real values are >= 0
None == -1
\* results_lock is held by nobody
Free == 0
\* Python None for pair_url (None and "" are both falsy in `if pair_url`)
NoUrl == ""
\* token identifiers a message can carry
Tokens == {"AAA", "0xB"}
\* market caps the API reports (float(marketCap) or float(fdv)) in Spec
Caps == {1000, 1500}
\* the url of the selected pair in Spec
Urls == {"u"}
\* market caps and urls (or None) the API reports in SpecObs
CapsObs == {0, 1000, 1200, 1500}
UrlsObs == {NoUrl, "u"}
\* the handler tasks.  A handler reads and writes shared state only between
\* bot.py:309 and bot.py:330, all of it inside results_lock, so a second
\* handler in flight can only wait at bot.py:309: its message acts as a later
\* message of the one handler modelled
Handlers == {1}
\* the candidate lists a message can yield (tokens at bot.py:298)
Msgs == UNION {[1..n -> Tokens] : n \in 0..MaxTokens}

VARIABLES
    entry,      \* current_holder["entry"]; NoEntry is Python None
    curfile,    \* the current-state file (results_path) as _load_current reads it
    history,    \* the history file (history_path) as _load_history reads it
    lock,       \* holder of results_lock: Free or a handler
    nextId,     \* identity of the next dict object a handler creates
    clock,      \* time: the number of candidates received so far
    mpc,        \* market_cap_monitor: "sleep", "fetch", "apply", "dead", "cancelled"
    mentry,     \* identity of the dict the monitor read at bot.py:168
    mtoken,     \* token_key of the monitor (bot.py:171)
    mcap,       \* market_cap the monitor's fetch returned (bot.py:174)
    murl,       \* pair_url the monitor's fetch returned (bot.py:174)
    hpc,        \* handler: "idle", "wait" (for the lock), "fetch"
    htokens,    \* handler: tokens (bot.py:298)
    hidx,       \* handler: position of token_key in tokens (bot.py:310)
    hdate,      \* handler: event.date
    hentry,     \* handler: the new dict `entry` (bot.py:316), not yet installed
    fpairs,     \* fetch worker thread: `pairs` of the response (bot.py:120)
    fresult     \* fetch worker thread: <<>> until it returns, then its result

\* the state of a fetch worker thread taken by itself
fvars == <<fpairs, fresult>>

vars == <<entry, curfile, history, lock, nextId, clock,
          mpc, mentry, mtoken, mcap, murl, hpc, htokens, hidx, hdate, hentry,
          fpairs, fresult>>

\* ---------------------------------------------------------------- pure helpers
\* n / d rounded to the nearest integer, ties to even (Python round and the
\* 'f' format both round the value to nearest, ties to even)
RoundHalfEven(n, d) ==
    LET q == n \div d
        r == n % d
    IN  IF 2 * r < d THEN q
        ELSE IF 2 * r > d THEN q + 1
        ELSE IF q % 2 = 0 THEN q ELSE q + 1

Digit(k) == <<"0", "1", "2", "3", "4", "5", "6", "7", "8", "9">>[k + 1]

RECURSIVE NatStr(_)
NatStr(n) == IF n < 10 THEN Digit(n) ELSE NatStr(n \div 10) \o Digit(n % 10)

\* _format_percent: f"{value:+.2f}%"; value is given in units of 0.0001
_format_percent(v) ==
    LET a == IF v < 0 THEN -v ELSE v
        h == RoundHalfEven(a, 100)
    IN  (IF v < 0 THEN "-" ELSE "+")
        \o NatStr(h \div 100) \o "." \o Digit((h % 100) \div 10) \o Digit(h % 10) \o "%"

\* round(((cap - initial) / initial) * 100, 4) if initial else 0.0, in units
\* of 0.0001 (bot.py:192-197 and 199-204)
PercentOf(cap, initial) ==
    IF initial = None \/ initial = 0 THEN 0
    ELSE LET n == (cap - initial) * 1000000
         IN  IF n >= 0 THEN RoundHalfEven(n, initial) ELSE -RoundHalfEven(-n, initial)

\* 50.0 in units of 0.0001 (bot.py:208)
FiftyPercent == 500000

\* _utc_now_iso(): the model does not tell instants of the wall clock apart
_utc_now_iso == 1

\* ---------------------------------------------------------------- entries
\* Python None as the value of current_holder["entry"] (`if not entry`)
NoEntry ==
    [eid |-> 0, token |-> "", time_posted |-> None,
     initial_market_cap |-> None, highest_market_cap |-> None,
     current_market_cap |-> None, current_percentage |-> "",
     highest_percent_increase |-> 0, reached_50 |-> FALSE,
     last_checked |-> None, pair_url |-> NoUrl]

\* the dict literal of the handler (bot.py:316-327); eid is the identity of
\* the dict object, which no JSON file stores
NewEntry(id, token_key, date) ==
    [eid |-> id, token |-> token_key, time_posted |-> date,
     initial_market_cap |-> None, highest_market_cap |-> None,
     current_market_cap |-> None, current_percentage |-> _format_percent(0),
     highest_percent_increase |-> 0, reached_50 |-> FALSE,
     last_checked |-> None, pair_url |-> NoUrl]

\* _refresh_entry_market_cap after a fetch that returned (market_cap, pair_url)
_refresh_entry_market_cap(e, market_cap, pair_url, now) ==
    IF market_cap = None THEN e
    ELSE [e EXCEPT !.initial_market_cap = market_cap,
                   !.highest_market_cap = market_cap,
                   !.current_market_cap = market_cap,
                   !.current_percentage = _format_percent(0),
                   !.highest_percent_increase = 0,
                   !.reached_50 = FALSE,
                   !.last_checked = now,
                   !.pair_url = IF pair_url # NoUrl THEN pair_url ELSE @]

\* bot.py:188 compares market_cap with entry.get("highest_market_cap", ...):
\* the key is present in every dict the handler builds, so the default is not
\* used and a None value makes `market_cap > None` raise TypeError
ApplyRaises(e) == e.highest_market_cap = None

\* the entry at the moment bot.py:188 raises: bot.py:185-187 has run
ApplyPartial(e, market_cap) ==
    IF e.initial_market_cap = None
    THEN [e EXCEPT !.initial_market_cap = market_cap]
    ELSE e

\* max(entry.get("highest_percent_increase", 0.0), highest_percent), bot.py:205-207
HighestPercent(prev, highest_percent) ==
    IF prev >= highest_percent THEN prev ELSE highest_percent

\* mutant of Reached50: the threshold is exclusive
Reached50Strict(highest_percent) == highest_percent > FiftyPercent

\* highest_percent >= 50.0, bot.py:208
Reached50(highest_percent) == highest_percent >= FiftyPercent

\* mutant of ApplyObservation: highest_percent_increase is set to the percent
\* of the current market cap
ApplyObservationCurrent(e, market_cap, pair_url, now) ==
    LET initial == IF e.initial_market_cap = None THEN market_cap
                   ELSE e.initial_market_cap
        highest == IF market_cap > e.highest_market_cap THEN market_cap
                   ELSE e.highest_market_cap
    IN  [e EXCEPT !.initial_market_cap = initial,
                  !.highest_market_cap = highest,
                  !.current_market_cap = market_cap,
                  !.current_percentage = _format_percent(PercentOf(market_cap, initial)),
                  !.highest_percent_increase = PercentOf(market_cap, initial),
                  !.reached_50 = Reached50(PercentOf(highest, initial)),
                  !.last_checked = now,
                  !.pair_url = IF pair_url # NoUrl THEN pair_url ELSE @]

\* mutant of ApplyObservation: initial_market_cap is set without the test of
\* bot.py:185
ApplyObservationResetInitial(e, market_cap, pair_url, now) ==
    LET initial == market_cap
        highest == IF market_cap > e.highest_market_cap THEN market_cap
                   ELSE e.highest_market_cap
        highest_percent == PercentOf(highest, initial)
    IN  [e EXCEPT !.initial_market_cap = initial,
                  !.highest_market_cap = highest,
                  !.current_market_cap = market_cap,
                  !.current_percentage = _format_percent(PercentOf(market_cap, initial)),
                  !.highest_percent_increase = HighestPercent(@, highest_percent),
                  !.reached_50 = Reached50(highest_percent),
                  !.last_checked = now,
                  !.pair_url = IF pair_url # NoUrl THEN pair_url ELSE @]

\* the locked update of the monitor, bot.py:181-211, when nothing raises
ApplyObservation(e, market_cap, pair_url, now) ==
    LET initial == IF e.initial_market_cap = None THEN market_cap
                   ELSE e.initial_market_cap
        highest == IF market_cap > e.highest_market_cap THEN market_cap
                   ELSE e.highest_market_cap
        highest_percent == PercentOf(highest, initial)
    IN  [e EXCEPT !.initial_market_cap = initial,
                  !.highest_market_cap = highest,
                  !.current_market_cap = market_cap,
                  !.current_percentage = _format_percent(PercentOf(market_cap, initial)),
                  !.highest_percent_increase = HighestPercent(@, highest_percent),
                  !.reached_50 = Reached50(highest_percent),
                  !.last_checked = now,
                  !.pair_url = IF pair_url # NoUrl THEN pair_url ELSE @]

\* the guard of bot.py:179: the monitor skips the update
TokenChanged(e, token_key) == e = NoEntry \/ e.token # token_key

\* mutant of SkipSame: the test of bot.py:312 is missing
SkipNone(tokens, i, active) == i

\* bot.py:310-313: the first position from i on whose token differs from the
\* active token (`continue` on an equal one)
RECURSIVE SkipSame(_, _, _)
SkipSame(tokens, i, active) ==
    IF i <= Len(tokens) /\ tokens[i] = active
    THEN SkipSame(tokens, i + 1, active)
    ELSE i

\* ---------------------------------------------------------------- files
\* Path.write_text opens the file with mode "w", which truncates it, and then
\* writes: the call ends normally ("ok"), raises before the file is opened
\* ("unchanged"), or raises after the truncation ("truncated")
WriteOutcomes == {"ok", "unchanged", "truncated"}

\* a write that replaces the file in one step (temporary file, then rename),
\* which the code does not do: a call that raises leaves the old content
write_text_atomic(outcome, old, new, empty) ==
    IF outcome = "ok" THEN new ELSE old

\* the file after path.write_text(new), as its loader reads it: a truncated
\* file does not parse, so _load_current returns None and _load_history
\* returns [] (bot.py:46-48 and bot.py:67-69); empty is that value
write_text(outcome, old, new, empty) ==
    IF outcome = "ok" THEN new
    ELSE IF outcome = "unchanged" THEN old
    ELSE empty

\* _save_current (bot.py:51-52)
_save_current(outcome, e) == write_text(outcome, curfile, e, NoEntry)

\* _append_history (bot.py:72-75): the array read from the file, with a
\* copy of the entry appended, is written back
_append_history(outcome, e) ==
    write_text(outcome, history, Append(history, e), <<>>)

\* ---------------------------------------------------------------- initial state
\* main has run up to client.start() with no current-state file, no history
\* file and no STATIC_TOKENS; the monitor task is in its first sleep
Init ==
    /\ entry = NoEntry
    /\ curfile = NoEntry
    /\ history = <<>>
    /\ lock = Free
    /\ nextId = 1
    /\ clock = 0
    /\ mpc = "sleep"
    /\ mentry = 0
    /\ mtoken = ""
    /\ mcap = None
    /\ murl = NoUrl
    /\ hpc = [h \in Handlers |-> "idle"]
    /\ htokens = [h \in Handlers |-> <<>>]
    /\ hidx = [h \in Handlers |-> 0]
    /\ hdate = [h \in Handlers |-> 0]
    /\ hentry = [h \in Handlers |-> NoEntry]
    /\ fpairs = <<>>
    /\ fresult = <<>>

\* ---------------------------------------------------------------- handler
\* the handler leaves `async with results_lock` (normally or by an exception
\* that bot.py:338 catches) and returns
HandlerLeaves(h) ==
    /\ hpc' = [hpc EXCEPT ![h] = "idle"]
    /\ htokens' = [htokens EXCEPT ![h] = <<>>]
    /\ hidx' = [hidx EXCEPT ![h] = 0]
    /\ hdate' = [hdate EXCEPT ![h] = 0]
    /\ hentry' = [hentry EXCEPT ![h] = NoEntry]
    /\ lock' = Free
    /\ nextId' = nextId

\* the loop of bot.py:310-330 from position i, with cur the active entry,
\* up to the await of bot.py:328 or the end of the loop
HandlerLoop(h, i, cur) ==
    LET j == SkipSame(htokens[h], i, cur.token)
    IN  IF j > Len(htokens[h])
        THEN HandlerLeaves(h) /\ history' = history
        ELSE \/ /\ history' = IF cur = NoEntry THEN history
                               ELSE _append_history("ok", cur)
                /\ hentry' = [hentry EXCEPT ![h] = NewEntry(nextId, htokens[h][j], hdate[h])]
                /\ nextId' = nextId + 1
                /\ hidx' = [hidx EXCEPT ![h] = j]
                /\ hpc' = [hpc EXCEPT ![h] = "fetch"]
                /\ lock' = h
                /\ UNCHANGED <<htokens, hdate>>
             \/ \* _append_history raises (the file cannot be written)
                /\ cur # NoEntry
                /\ \E outcome \in WriteOutcomes \ {"ok"} :
                      history' = _append_history(outcome, cur)
                /\ HandlerLeaves(h)

\* a message arrives: bot.py:271-300.  A message the filters of bot.py:274-293
\* drop, or one without candidates (bot.py:299), ends the handler at once.
\* event.date is the time of arrival
H_ReceiveOf(h, msgs) ==
    /\ mpc # "cancelled"
    /\ hpc[h] = "idle"
    /\ \E tokens \in msgs, allowed \in BOOLEAN :
        /\ clock + Len(tokens) <= MaxCandidates
        /\ IF allowed /\ tokens # <<>>
           THEN /\ hpc' = [hpc EXCEPT ![h] = "wait"]
                /\ htokens' = [htokens EXCEPT ![h] = tokens]
                /\ hdate' = [hdate EXCEPT ![h] = clock + Len(tokens)]
                /\ clock' = clock + Len(tokens)
           ELSE UNCHANGED <<hpc, htokens, hdate, clock>>
    /\ UNCHANGED <<entry, curfile, history, lock, nextId,
                   mpc, mentry, mtoken, mcap, murl, hidx, hentry>>
    /\ UNCHANGED fvars

H_Receive(h) == H_ReceiveOf(h, Msgs)

\* bot.py:309: the handler gets results_lock and runs the loop up to its first await
H_Enter(h) ==
    /\ hpc[h] = "wait"
    /\ lock = Free
    /\ HandlerLoop(h, 1, entry)
    /\ UNCHANGED <<entry, curfile, clock, mpc, mentry, mtoken, mcap, murl>>
    /\ UNCHANGED fvars

\* bot.py:328-330: the fetch of _refresh_entry_market_cap ends, inside the lock
H_FetchReturn(h) ==
    /\ hpc[h] = "fetch"
    /\ \/ \* _http_get_json raises: the exception leaves the lock and the loop
          /\ HandlerLeaves(h)
          /\ UNCHANGED <<entry, curfile, history>>
       \/ \E market_cap \in Caps \cup {None}, pair_url \in Urls :
            LET e == _refresh_entry_market_cap(hentry[h], market_cap, pair_url, _utc_now_iso)
            IN  /\ entry' = e
                /\ \/ /\ curfile' = _save_current("ok", e)
                      /\ HandlerLoop(h, hidx[h] + 1, e)
                   \/ \* _save_current raises
                      /\ \E outcome \in WriteOutcomes \ {"ok"} :
                            curfile' = _save_current(outcome, e)
                      /\ history' = history
                      /\ HandlerLeaves(h)
    /\ UNCHANGED <<clock, mpc, mentry, mtoken, mcap, murl>>
    /\ UNCHANGED fvars

\* ---------------------------------------------------------------- monitor
\* bot.py:166-173: the sleep ends, the monitor reads the active entry in the lock
M_Wake ==
    /\ mpc = "sleep"
    /\ lock = Free
    /\ IF entry = NoEntry
       THEN UNCHANGED <<mpc, mentry, mtoken>>
       ELSE /\ mpc' = "fetch"
            /\ mentry' = entry.eid
            /\ mtoken' = entry.token
    /\ UNCHANGED <<entry, curfile, history, lock, nextId, clock,
                   mcap, murl, hpc, htokens, hidx, hdate, hentry>>
    /\ UNCHANGED fvars

\* the monitor is back at the top of its loop
MonitorTo(pc) ==
    /\ mpc' = pc
    /\ mentry' = 0
    /\ mtoken' = ""
    /\ mcap' = None
    /\ murl' = NoUrl

\* bot.py:174-176: the fetch ends, outside the lock
M_FetchReturnOf(caps, urls) ==
    /\ mpc = "fetch"
    /\ \/ \* _http_get_json raises: nothing in market_cap_monitor catches it
          MonitorTo("dead")
       \/ \* market_cap is None: continue
          MonitorTo("sleep")
       \/ \E market_cap \in caps, pair_url \in urls :
            /\ mpc' = "apply"
            /\ mcap' = market_cap
            /\ murl' = pair_url
            /\ UNCHANGED <<mentry, mtoken>>
    /\ UNCHANGED <<entry, curfile, history, lock, nextId, clock,
                   hpc, htokens, hidx, hdate, hentry>>
    /\ UNCHANGED fvars

M_FetchReturn == M_FetchReturnOf(Caps, Urls)

\* mutant of M_Apply: the file is written in a worker thread that the locked
\* section awaits, so the monitor is suspended between the update of the
\* entry and the save, holding the lock
M_ApplyAwaitsSave ==
    /\ mpc = "apply"
    /\ lock = Free
    /\ IF TokenChanged(entry, mtoken)
       THEN /\ MonitorTo("sleep")
            /\ UNCHANGED <<entry, lock>>
       ELSE IF ApplyRaises(entry)
       THEN /\ entry' = ApplyPartial(entry, mcap)
            /\ lock' = lock
            /\ MonitorTo("dead")
       ELSE /\ entry' = ApplyObservation(entry, mcap, murl, _utc_now_iso)
            /\ lock' = Free - 1
            /\ mpc' = "save"
            /\ UNCHANGED <<mentry, mtoken, mcap, murl>>
    /\ UNCHANGED <<curfile, history, nextId, clock,
                   hpc, htokens, hidx, hdate, hentry>>
    /\ UNCHANGED fvars

\* bot.py:177-212: the locked update
M_Apply ==
    /\ mpc = "apply"
    /\ lock = Free
    /\ IF TokenChanged(entry, mtoken)
       THEN /\ MonitorTo("sleep")
            /\ UNCHANGED <<entry, curfile>>
       ELSE IF ApplyRaises(entry)
       THEN /\ entry' = ApplyPartial(entry, mcap)
            /\ curfile' = curfile
            /\ MonitorTo("dead")
       ELSE /\ entry' = ApplyObservation(entry, mcap, murl, _utc_now_iso)
            /\ \/ /\ curfile' = _save_current("ok", entry')
                  /\ MonitorTo("sleep")
               \/ \* _save_current raises: nothing in market_cap_monitor catches it
                  /\ \E outcome \in WriteOutcomes \ {"ok"} :
                        curfile' = _save_current(outcome, entry')
                  /\ MonitorTo("dead")
    /\ UNCHANGED <<history, lock, nextId, clock,
                   hpc, htokens, hidx, hdate, hentry>>
    /\ UNCHANGED fvars

\* bot.py:346-351: the client disconnects and main cancels the monitor task;
\* a task that has not ended is cancelled at the await it is suspended in
Disconnect ==
    /\ mpc \notin {"dead", "cancelled"}
    /\ MonitorTo("cancelled")
    /\ UNCHANGED <<entry, curfile, history, lock, nextId, clock,
                   hpc, htokens, hidx, hdate, hentry>>
    /\ UNCHANGED fvars

Next ==
    \/ \E h \in Handlers : H_Receive(h)
    \/ \E h \in Handlers : H_Enter(h)
    \/ \E h \in Handlers : H_FetchReturn(h)
    \/ M_Wake
    \/ M_FetchReturn
    \/ M_Apply
    \/ Disconnect

Spec == Init /\ [][Next]_vars

\* ---------------------------------------------------------------- one entry
\* The life of one active entry under the monitor alone: a handler has
\* created the entry, its initial fetch has returned any of the values of
\* CapsObs or no market cap, and no other message arrives
InitObs ==
    /\ \E token_key \in Tokens, market_cap \in CapsObs \cup {None}, pair_url \in UrlsObs :
         entry = _refresh_entry_market_cap(NewEntry(1, token_key, 1), market_cap,
                                           pair_url, _utc_now_iso)
    /\ curfile = entry
    /\ history = <<>>
    /\ lock = Free
    /\ nextId = 2
    /\ clock = 1
    /\ mpc = "sleep"
    /\ mentry = 0
    /\ mtoken = ""
    /\ mcap = None
    /\ murl = NoUrl
    /\ hpc = [h \in Handlers |-> "idle"]
    /\ htokens = [h \in Handlers |-> <<>>]
    /\ hidx = [h \in Handlers |-> 0]
    /\ hdate = [h \in Handlers |-> 0]
    /\ hentry = [h \in Handlers |-> NoEntry]
    /\ fpairs = <<>>
    /\ fresult = <<>>

M_FetchReturnObs == M_FetchReturnOf(CapsObs, UrlsObs)

NextObs ==
    \/ M_Wake
    \/ M_FetchReturnObs
    \/ M_Apply
    \/ Disconnect

SpecObs == InitObs /\ [][NextObs]_vars

\* ---------------------------------------------------------------- classifier
Digits == {"0", "1", "2", "3", "4", "5", "6", "7", "8", "9"}
Lower == {"a", "b", "c", "d", "e", "f", "g", "h", "i", "j", "k", "l", "m",
          "n", "o", "p", "q", "r", "s", "t", "u", "v", "w", "x", "y", "z"}
Upper == {"A", "B", "C", "D", "E", "F", "G", "H", "I", "J", "K", "L", "M",
          "N", "O", "P", "Q", "R", "S", "T", "U", "V", "W", "X", "Y", "Z"}
\* [a-fA-F0-9] (bot.py:18)
HexChars == Digits \cup {"a", "b", "c", "d", "e", "f", "A", "B", "C", "D", "E", "F"}
\* [A-Za-z0-9] (bot.py:19)
AlnumChars == Digits \cup Lower \cup Upper
\* [1-9A-HJ-NP-Za-km-z] (bot.py:21)
Base58Chars == AlnumChars \ {"0", "I", "O", "l"}
\* \w, over ASCII text
WordChars == AlnumChars \cup {"_"}

Char(s, i) == SubSeq(s, i, i)

\* how many characters of s from position i on are in class, up to max
RECURSIVE RunLength(_, _, _, _)
RunLength(s, i, class, max) ==
    IF max = 0 \/ i > Len(s) \/ Char(s, i) \notin class THEN 0
    ELSE 1 + RunLength(s, i + 1, class, max - 1)

\* \b at the gap before position i of s
WordBoundary(s, i) ==
    LET before == i > 1 /\ Char(s, i - 1) \in WordChars
        after == i <= Len(s) /\ Char(s, i) \in WordChars
    IN  before # after

\* the length of the match of the pattern at position i of s, 0 for none:
\* the quantifiers are greedy and give characters back until the rest of
\* the pattern matches (bot.py:18-21)
MatchLen(pattern, s, i) ==
    IF pattern = "ADDRESS_REGEX"
    THEN IF /\ Char(s, i) = "0"
            /\ i < Len(s)
            /\ Char(s, i + 1) = "x"
            /\ RunLength(s, i + 2, HexChars, 40) = 40
         THEN 42 ELSE 0
    ELSE IF pattern = "TICKER_REGEX"
    THEN IF Char(s, i) = "$" /\ RunLength(s, i + 1, AlnumChars, 10) >= 2
         THEN 1 + RunLength(s, i + 1, AlnumChars, 10) ELSE 0
    ELSE LET fits == {n \in 32..RunLength(s, i, Base58Chars, 50) :
                          WordBoundary(s, i + n)}
         IN  IF WordBoundary(s, i) /\ fits # {}
             THEN CHOOSE n \in fits : \A k \in fits : k <= n
             ELSE 0

\* re.findall: the matches from position i on, from left to right, each
\* search resuming where the last match ended
RECURSIVE findall(_, _, _)
findall(pattern, s, i) ==
    IF i > Len(s) THEN <<>>
    ELSE LET n == MatchLen(pattern, s, i)
         IN  IF n = 0 THEN findall(pattern, s, i + 1)
             ELSE <<SubSeq(s, i, i + n - 1)>> \o findall(pattern, s, i + n)

\* mutant of TokensOf: the ticker symbols come before the addresses
TokensOfTickersFirst(message) ==
    LET addresses == findall("ADDRESS_REGEX", message, 1)
        found == findall("TICKER_REGEX", message, 1)
        tickers == [k \in 1..Len(found) |-> SubSeq(found[k], 2, Len(found[k]))]
        base58_mints == findall("BASE58_MINT_REGEX", message, 1)
    IN  tickers \o addresses \o base58_mints

\* tokens of bot.py:295-298: the addresses of the message, then its ticker
\* symbols without the "$", then its base58 strings
TokensOf(message) ==
    LET addresses == findall("ADDRESS_REGEX", message, 1)
        found == findall("TICKER_REGEX", message, 1)
        tickers == [k \in 1..Len(found) |-> SubSeq(found[k], 2, Len(found[k]))]
        base58_mints == findall("BASE58_MINT_REGEX", message, 1)
    IN  addresses \o tickers \o base58_mints

ScenarioAddress == "0xAbCdEf0123456789AbCdEf0123456789AbCdEf01"
ScenarioText == "buy $ABC now 0xAbCdEf0123456789AbCdEf0123456789AbCdEf01"

\* message texts (event.raw_text, bot.py:272)
Texts ==
    {ScenarioText,
     "$ABC is pumping",
     "gm $A",
     "ca: So11111111111111111111111111111111111111112"}

\* the candidate lists of the texts
MsgsText == {TokensOf(message) : message \in Texts}

H_ReceiveText(h) == H_ReceiveOf(h, MsgsText)

\* the handler alone, on message texts
NextMsg ==
    \E h \in Handlers :
        \/ H_ReceiveText(h)
        \/ H_Enter(h)
        \/ H_FetchReturn(h)

SpecMsg == Init /\ [][NextMsg]_vars

\* ---------------------------------------------------------------- fetch
\* the longest `pairs` array of a response
MaxPairs == 2

\* a JSON value that float() rejects, such as the string "n/a"; numbers are
\* the naturals, and None stands for a key that is absent or null, which
\* dict.get does not tell apart
NotNumeric == -2

\* float(v) returns (bot.py:96 and bot.py:112)
IsNumber(v) == v >= 0

\* the pairs of a DexScreener response, by the keys the bot reads
PairsFetch ==
    [liquidity : {None, 5, 9},
     marketCap : {None, NotNumeric, 1000},
     fdv : {None, NotNumeric, 1500},
     url : {"u"}]

\* `best` of _pick_best_pair before the first pair (bot.py:91); the empty
\* dict, which bot.py:122 treats the same way, has the same reading
NoPair == [liquidity |-> None, marketCap |-> None, fdv |-> None, url |-> NoUrl]

Responses == UNION {[1..n -> PairsFetch] : n \in 0..MaxPairs}

\* liquidity_val of bot.py:94-98; the model has no pair["liquidity"]["usd"]
\* nesting, liquidity is that value
LiquidityVal(pair) == IF IsNumber(pair.liquidity) THEN pair.liquidity ELSE 0

\* the loop of _pick_best_pair from pair i on (bot.py:93-101)
RECURSIVE PickFrom(_, _, _, _)
PickFrom(pairs, i, best, best_liquidity) ==
    IF i > Len(pairs) THEN best
    ELSE IF LiquidityVal(pairs[i]) > best_liquidity
         THEN PickFrom(pairs, i + 1, pairs[i], LiquidityVal(pairs[i]))
         ELSE PickFrom(pairs, i + 1, best, best_liquidity)

\* bot.py:90-102
_pick_best_pair(pairs) == PickFrom(pairs, 1, NoPair, -1)

\* bot.py:105-114
_parse_market_cap(pair) ==
    LET market_cap == IF pair.marketCap = None THEN pair.fdv ELSE pair.marketCap
    IN  IF market_cap = None THEN None
        ELSE IF IsNumber(market_cap) THEN market_cap
        ELSE None

\* bot.py:117-135, after _http_get_json has returned: both functions end
\* the same way
_fetch_market_cap(pairs) ==
    LET best == _pick_best_pair(pairs)
    IN  IF best = NoPair
        THEN [market_cap |-> None, pair_url |-> NoUrl]
        ELSE [market_cap |-> _parse_market_cap(best), pair_url |-> best.url]

\* a fetch worker thread that has received its response
InitFetch ==
    /\ fpairs \in Responses
    /\ fresult = <<>>
    /\ entry = NoEntry
    /\ curfile = NoEntry
    /\ history = <<>>
    /\ lock = Free
    /\ nextId = 1
    /\ clock = 0
    /\ mpc = "sleep"
    /\ mentry = 0
    /\ mtoken = ""
    /\ mcap = None
    /\ murl = NoUrl
    /\ hpc = [h \in Handlers |-> "idle"]
    /\ htokens = [h \in Handlers |-> <<>>]
    /\ hidx = [h \in Handlers |-> 0]
    /\ hdate = [h \in Handlers |-> 0]
    /\ hentry = [h \in Handlers |-> NoEntry]

\* the worker thread returns (bot.py:121-124)
F_Return ==
    /\ fresult = <<>>
    /\ fresult' = <<_fetch_market_cap(fpairs)>>
    /\ UNCHANGED <<fpairs, entry, curfile, history, lock, nextId, clock,
                   mpc, mentry, mtoken, mcap, murl,
                   hpc, htokens, hidx, hdate, hentry>>

NextFetch == F_Return

SpecFetch == InitFetch /\ [][NextFetch]_vars

\* ---------------------------------------------------------------- claims
\* the handler h ends in this step
HandlerEnds(h) == hpc[h] # "idle" /\ hpc'[h] = "idle"

\* the monitor runs its locked section (bot.py:177-212) in this step
MonitorApplies == mpc = "apply" /\ mpc' # "apply" /\ mpc' # "cancelled"

\* every entry is archived at most once, in the order of creation, and the
\* active entry is not archived
ArchivedOnce ==
    /\ \A i, j \in 1..Len(history) : i < j => history[i].eid < history[j].eid
    /\ \A i \in 1..Len(history) : history[i].eid # entry.eid

Max(a, b) == IF a >= b THEN a ELSE b

\* C1: when the handler of a message ends, the active entry's token is the
\* last candidate of the message, and the history holds every superseded
\* entry once, in the order they were superseded, whatever the fetches did.
C1_ActiveIsLastSubmitted ==
    [][\A h \in Handlers :
         HandlerEnds(h) =>
            /\ entry'.token = htokens[h][Len(htokens[h])]
            /\ ArchivedOnce']_vars

\* C2: when the entry the monitor read before its fetch is no longer the
\* active entry at the time it applies the result, the monitor changes no
\* field of the active entry and does not write the current-state file.
C2_StaleFetchNeverMutates ==
    [][(MonitorApplies /\ entry.eid # mentry) =>
          (entry' = entry /\ curfile' = curfile)]_vars

\* C3: no fetch is in flight, of the monitor or of a handler, while
\* results_lock is held.
C3_NoFetchUnderLock ==
    (mpc = "fetch" \/ \E h \in Handlers : hpc[h] = "fetch") => lock = Free

\* C4: a fetch of the monitor that ends, by a value, by no market cap or by
\* a raised failure, leaves the monitor loop running (asleep, about to apply
\* the value, or cancelled from outside), with the active entry and the
\* current-state file as they were.
C4_MonitorSurvivesFetch ==
    [][(mpc = "fetch" /\ mpc' # "fetch") =>
          (mpc' \in {"sleep", "apply", "cancelled"}
           /\ entry' = entry /\ curfile' = curfile)]_vars

\* C5: a candidate equal to the active token is skipped: a message made of
\* the active token alone leaves the entry, the history and the file as they
\* are and starts no fetch; a handler starts a fetch only for a candidate
\* that differs from the active token; and a candidate repeated after itself
\* archives nothing and creates nothing.
C5_SameTokenNoOp ==
    [][\A h \in Handlers :
         /\ (/\ hpc[h] = "wait" /\ hpc'[h] # "wait"
             /\ entry # NoEntry
             /\ \A k \in 1..Len(htokens[h]) : htokens[h][k] = entry.token)
            => (/\ entry' = entry /\ history' = history /\ curfile' = curfile
                /\ nextId' = nextId /\ hpc'[h] = "idle")
         /\ (hpc'[h] = "fetch" /\ (hpc[h] # "fetch" \/ hidx'[h] # hidx[h]))
            => hentry'[h].token # entry'.token
         /\ (/\ hpc[h] = "fetch" /\ hpc'[h] # "fetch"
             /\ entry'.eid = hentry[h].eid
             /\ \A k \in (hidx[h] + 1)..Len(htokens[h]) : htokens[h][k] = entry'.token)
            => (history' = history /\ nextId' = nextId)]_vars

\* a handler has skipped the first candidate of its message, equal to the
\* token of an entry an earlier message created, and works on the second
C5_Witness ==
    \E h \in Handlers :
        /\ hpc[h] = "fetch" /\ hidx[h] = 2
        /\ entry # NoEntry
        /\ entry.token = htokens[h][1]
        /\ entry.time_posted # hdate[h]
        /\ entry.initial_market_cap # None

\* C6: highest_percent_increase of an entry never decreases while the entry
\* is the active one.
C6_HighestPercentMonotone ==
    [][(entry # NoEntry /\ entry'.eid = entry.eid) =>
          entry'.highest_percent_increase >= entry.highest_percent_increase]_vars

\* an observation below the highest has been applied to an entry that rose
C6_Witness ==
    /\ entry # NoEntry
    /\ entry.highest_percent_increase > 0
    /\ entry.current_market_cap # None
    /\ entry.current_market_cap < entry.highest_market_cap

\* C7: reached_50 of the active entry is true exactly when its
\* highest_percent_increase is at least 50.0, and once true it stays true
\* while the entry is the active one.
C7_Reached50 ==
    [][entry' # NoEntry =>
          /\ entry'.reached_50 <=> entry'.highest_percent_increase >= FiftyPercent
          /\ (entry'.eid = entry.eid /\ entry.reached_50) => entry'.reached_50]_vars

\* an entry that reached 50 percent has fallen below its initial market cap
C7_Witness ==
    /\ entry # NoEntry
    /\ entry.reached_50
    /\ entry.highest_percent_increase = FiftyPercent
    /\ entry.current_market_cap < entry.initial_market_cap

\* C8: an observation the monitor applies to the active entry leaves
\* highest_market_cap at the maximum of its previous value and the
\* observation, at least current_market_cap, which is the observation; an
\* observation below the maximum leaves highest_percent_increase unchanged.
C8_HighestIsMaximum ==
    [][(MonitorApplies /\ ~TokenChanged(entry, mtoken)) =>
          /\ entry'.highest_market_cap = Max(entry.highest_market_cap, mcap)
          /\ entry'.current_market_cap = mcap
          /\ entry'.highest_market_cap >= entry'.current_market_cap
          /\ mcap <= entry.highest_market_cap =>
                entry'.highest_percent_increase = entry.highest_percent_increase]_vars

\* C9: current_percentage of the active entry is the rendering of the
\* rounded percent of current_market_cap over initial_market_cap, and
\* "+0.00%" when initial_market_cap is None or zero.
C9_PercentageRecomputable ==
    entry # NoEntry =>
        IF entry.initial_market_cap = None \/ entry.initial_market_cap = 0
        THEN entry.current_percentage = "+0.00%"
        ELSE /\ entry.current_market_cap # None
             /\ entry.current_percentage =
                  _format_percent(PercentOf(entry.current_market_cap,
                                            entry.initial_market_cap))

\* C10: while an entry is the active one its token and time_posted do not
\* change, and its initial_market_cap does not change once it is not None.
C10_InitialFixed ==
    [][(entry # NoEntry /\ entry'.eid = entry.eid) =>
          /\ entry'.token = entry.token
          /\ entry'.time_posted = entry.time_posted
          /\ entry.initial_market_cap # None =>
                entry'.initial_market_cap = entry.initial_market_cap]_vars

\* the monitor has moved the market cap of an entry away from its initial
\* value, and a later message repeating the token has been handled
C10_Witness ==
    /\ entry # NoEntry
    /\ entry.initial_market_cap # None
    /\ entry.current_market_cap # entry.initial_market_cap
    /\ history = <<>>
    /\ clock >= 2
    /\ nextId = 2
    /\ \A h \in Handlers : hpc[h] = "idle"


\* archive files are only ever extended
IsPrefix(s, t) == Len(s) <= Len(t) /\ SubSeq(t, 1, Len(s)) = s

\* C12: the history log is append-only: in every step the previous history
\* is a prefix of the new one, a record is appended only by a handler that
\* is about to create an entry for a token other than the active one, the
\* record is the entry active at that moment (the one active before the
\* step, or the one the same step has just installed), and the monitor
\* never writes the history
C12_HistoryAppendOnly ==
    [][/\ IsPrefix(history, history')
       /\ history' # history =>
            /\ mpc' = mpc
            /\ \E x \in {entry, entry'} :
                 /\ history' = Append(history, x)
                 /\ \E h \in Handlers :
                      hpc'[h] = "fetch" /\ hentry'[h].token # x.token]_vars

\* C13: a write of the current-state file that fails does not end the
\* monitor: an update whose only possible failure is the write leaves the
\* entry with its updated values and the monitor in its next sleep
C13_WriteFailureSurvived ==
    [][(MonitorApplies /\ ~TokenChanged(entry, mtoken) /\ ~ApplyRaises(entry))
         => /\ entry' = ApplyObservation(entry, mcap, murl, _utc_now_iso)
            /\ mpc' = "sleep"]_vars

\* the step in which the monitor task ends by cancellation
MonitorCancelled == mpc # "cancelled" /\ mpc' = "cancelled"

\* C14: the monitor is cancelled only in its sleep, in its unlocked fetch or
\* while it waits for the lock, never inside the locked update: the step
\* changes neither the active entry nor the files, and the monitor does not
\* hold the lock
C14_CancelBetweenUpdates ==
    [][MonitorCancelled =>
         /\ mpc \in {"sleep", "fetch", "apply"}
         /\ UNCHANGED <<entry, curfile, history, lock>>
         /\ lock' \in Handlers \cup {Free}]_vars

\* C14 witness: the monitor was cancelled after an update that it had
\* written to the file, with the lock free
C14_Witness ==
    /\ mpc = "cancelled"
    /\ lock = Free
    /\ entry # NoEntry
    /\ entry.current_market_cap # entry.initial_market_cap
    /\ curfile = entry

\* C15: whenever the lock is free, the history holds no snapshot of the
\* entry that is still active
C15_ArchiveThenReplace ==
    lock = Free => \A i \in 1..Len(history) : history[i].eid # entry.eid

\* C16: an observation m applied to an entry whose initial_market_cap is
\* null completes and leaves initial = highest = current = m, the zero
\* percentage, a highest increase of 0, last_checked set and the entry saved
C16_FirstObservation ==
    [][(MonitorApplies /\ ~TokenChanged(entry, mtoken)
          /\ entry.initial_market_cap = None)
         => /\ entry'.initial_market_cap = mcap
            /\ entry'.highest_market_cap = mcap
            /\ entry'.current_market_cap = mcap
            /\ entry'.current_percentage = _format_percent(0)
            /\ entry'.highest_percent_increase = 0
            /\ entry'.last_checked = _utc_now_iso
            /\ mpc' = "sleep"]_vars

\* the step in which handler h comes back from the initial fetch
FetchReturns(h) ==
    hpc[h] = "fetch" /\ (hpc'[h] # "fetch" \/ hidx'[h] # hidx[h])

\* C17: however the initial fetch ends, the entry created for the candidate
\* becomes the active entry, in its just-created state when the fetch gave
\* no market cap
C17_FetchFailureInstalls ==
    [][\A h \in Handlers : FetchReturns(h) =>
         /\ entry'.eid = hentry[h].eid
         /\ entry'.initial_market_cap = None => entry' = hentry[h]]_vars

\* C19: whenever the lock is free and an entry is active, the current-state
\* file equals the active entry field for field
C19_FileEqualsEntry ==
    (lock = Free /\ entry # NoEntry) => curfile = entry

\* C20: no reachable entry has an initial market cap without a current and
\* a highest market cap
C20_AllOrNothing ==
    (entry # NoEntry /\ entry.initial_market_cap # None)
      => /\ entry.current_market_cap # None
         /\ entry.highest_market_cap # None

\* C18: the market cap of the selected pair is its marketCap when that is
\* present and numeric, otherwise its fdv when that is present and numeric,
\* otherwise null
C18_MarketCapElseFdv ==
    (fresult # <<>> /\ _pick_best_pair(fpairs) # NoPair) =>
        LET best == _pick_best_pair(fpairs)
        IN  fresult[1].market_cap =
                IF IsNumber(best.marketCap) THEN best.marketCap
                ELSE IF IsNumber(best.fdv) THEN best.fdv
                ELSE None

\* the candidate list of the scenario message
ScenarioTokens == TokensOf(ScenarioText)

\* handler h is handling the scenario message
Handling(h) == hpc[h] # "idle" /\ htokens[h] = ScenarioTokens

\* C11 as stated: the message "buy $ABC now 0xAbCd...01" yields "ABC" first
\* and the hex address second, and the entry for "ABC" is created first
C11_TickerThenAddress ==
    \A h \in Handlers : Handling(h) =>
        /\ htokens[h] = <<"ABC", ScenarioAddress>>
        /\ (hpc[h] = "fetch" /\ hidx[h] = 1) => hentry[h].token = "ABC"

\* the order in which the candidates of the scenario message are handled
ScenarioOrder(h) ==
    Handling(h) =>
        /\ htokens[h] = <<ScenarioAddress, "ABC">>
        /\ (hpc[h] = "fetch" /\ hidx[h] = 1) =>
              /\ hentry[h].token = ScenarioAddress
              /\ entry.token # ScenarioAddress
        /\ (hpc[h] = "fetch" /\ hidx[h] = 2) =>
              /\ hentry[h].token = "ABC"
              /\ entry.token = ScenarioAddress
              /\ history # <<>>
              /\ history[Len(history)] = entry

\* C11: the message "buy $ABC now 0xAbCd...01" yields exactly two
\* candidates, the hex address first and "ABC" second; the entry for the
\* address is created first (unless the address is already active), the
\* entry for "ABC" is created while the address is active and archived, and
\* the step that installs the "ABC" entry ends the handler with "ABC"
\* active and the address entry the last record of the history
C11_AddressThenTicker ==
    [][\A h \in Handlers :
         /\ ScenarioOrder(h)'
         /\ (Handling(h) /\ hpc[h] = "fetch" /\ hidx[h] = 2 /\ entry' # entry) =>
               /\ entry'.eid = hentry[h].eid
               /\ entry'.token = "ABC"
               /\ history'[Len(history')].token = ScenarioAddress
               /\ HandlerEnds(h)]_vars

\* C11 witness: the handler is done, "ABC" is active and the last record of
\* the history is the address entry of the same message
C11_Witness ==
    /\ \A h \in Handlers : hpc[h] = "idle"
    /\ entry.token = "ABC"
    /\ history # <<>>
    /\ history[Len(history)].token = ScenarioAddress
    /\ history[Len(history)].time_posted = entry.time_posted
====
